---- MODULE Spec2Model ----
(***************************************************************************)
(* A model of smartai.models.nn.base: the Model base class and the         *)
(* model_summary utility (hook registration, one synthetic forward pass,   *)
(* hook removal, report printing), run several times in sequence on one    *)
(* module tree.                                                            *)
(***************************************************************************)
EXTENDS Integers, Sequences, FiniteSets, TLC

\* ------------------------------------------------------------------ bounds
\* How many times model_summary is called in sequence on the same model.
MaxInvocations == 2
\* Feature sizes of the parametrised linear layers and inputs range over 1..MaxDim.
MaxDim == 2

\* The batch dimension of the synthetic input, torch.rand(2, *in_size).
SyntheticBatch == 2
\* The default batch_size of model_summary.
DefaultBatch == -1
\* The leading dimension written for each shape of a list/tuple output.
MultiLead == -1
\* Bytes per number in the size estimates.
BytesPerNumber == 4

\* ----------------------------------------------------------- small helpers
RECURSIVE Prod(_)
\* torch.prod(torch.LongTensor(list(size))) and np.prod of a flat list.
Prod(s) == IF s = <<>> THEN 1 ELSE Head(s) * Prod(Tail(s))

RECURSIVE Flatten(_)
\* The elements of a list of lists, in order.
Flatten(ss) == IF ss = <<>> THEN <<>> ELSE Head(ss) \o Flatten(Tail(ss))

Abs(n) == IF n < 0 THEN -n ELSE n

\* np.prod of a list of lists: the product of all elements when the rows have
\* one length; a ragged list cannot be made into an array and raises.
Ragged(ss) == \E i, j \in 1..Len(ss) : Len(ss[i]) # Len(ss[j])

\* ---------------------------------------------------------------- strings
\* A device selector is a sequence of one-character strings.
LowerChar(c) ==
  CASE c = "A" -> "a" [] c = "C" -> "c" [] c = "D" -> "d" [] c = "G" -> "g"
    [] c = "P" -> "p" [] c = "U" -> "u" [] OTHER -> c

\* str.lower()
Lower(s) == [i \in 1..Len(s) |-> LowerChar(s[i])]

Cuda == <<"c", "u", "d", "a">>
Cpu == <<"c", "p", "u">>

\* "{0:,}".format(n) for n >= 0: decimal digits in groups of three.
Pad3(n) == IF n < 10 THEN "00" \o ToString(n)
           ELSE IF n < 100 THEN "0" \o ToString(n) ELSE ToString(n)

RECURSIVE Commas(_)
Commas(n) == IF n < 1000 THEN ToString(n)
             ELSE Commas(n \div 1000) \o "," \o Pad3(n % 1000)

\* ------------------------------------------------------------ module trees
\* A module: the dotted path of its class, its registered children, the
\* sub-modules its forward invokes (in order), its weight and bias (a sequence
\* holding the tensor's shape, empty when the attribute is missing or None),
\* weight.requires_grad, and what its own computation does.
Mod(qual, children, calls, weight, grad, bias, fwd) ==
  [qual |-> qual, children |-> children, calls |-> calls, weight |-> weight,
   grad |-> grad, bias |-> bias, fwd |-> fwd]

SequentialQual == <<"torch", "nn", "modules", "container", "Sequential">>
ModuleListQual == <<"torch", "nn", "modules", "container", "ModuleList">>
LinearQual == <<"torch", "nn", "modules", "linear", "Linear">>
ReLUQual == <<"torch", "nn", "modules", "activation", "ReLU">>
BatchNormQual == <<"torch", "nn", "modules", "batchnorm", "BatchNorm1d">>
ModelQual == <<"smartai", "models", "nn", "base", "Model">>

\* nn.Sequential: forward feeds each child the previous child's output.
Sequential(children) ==
  Mod(SequentialQual, children, children, <<>>, FALSE, <<>>, "chain")
\* nn.ModuleList: no forward of its own.
ModuleList(children) ==
  Mod(ModuleListQual, children, <<>>, <<>>, FALSE, <<>>, "unimpl")
\* nn.Linear(i, o): weight (o, i), bias (o) when hasBias.
Linear(i, o, hasBias, grad) ==
  Mod(LinearQual, <<>>, <<>>, << <<o, i>> >>, grad,
      IF hasBias THEN << <<o>> >> ELSE <<>>, "linear")
ReLU == Mod(ReLUQual, <<>>, <<>>, <<>>, FALSE, <<>>, "same")
\* nn.BatchNorm1d(c, affine=False): weight and bias are None.
BatchNormPlain == Mod(BatchNormQual, <<>>, <<>>, <<>>, FALSE, <<>>, "same")
\* A user module holding only a bias parameter of shape (c).
Shift(c) == Mod(<<"__main__", "Shift">>, <<>>, <<>>, <<>>, FALSE, << <<c>> >>, "same")
\* A user module returning the tuple (x, x).
Twice == Mod(<<"__main__", "Twice">>, <<>>, <<>>, <<>>, FALSE, <<>>, "pair")
\* A user module returning (x, x[:, :0, ...]): two tensors of different rank.
Split == Mod(<<"__main__", "Split">>, <<>>, <<>>, <<>>, FALSE, <<>>, "split")
\* A user module returning x.mean(): a 0-dim tensor.
Mean == Mod(<<"__main__", "Mean">>, <<>>, <<>>, <<>>, FALSE, <<>>, "scalar")
\* A user composite (a Model subclass with a forward): invokes calls in order.
Net(children, calls) ==
  Mod(<<"__main__", "Net">>, children, calls, <<>>, FALSE, <<>>, "compose")
Block(children, calls) ==
  Mod(<<"__main__", "Block">>, children, calls, <<>>, FALSE, <<>>, "compose")
\* The base class itself: forward raises NotImplementedError.
BaseModel == Mod(ModelQual, <<>>, <<>>, <<>>, FALSE, <<>>, "unimpl")

Dims == 1..MaxDim

\* input_size as the caller gives it: one tuple, or a list of tuples.
OneTuple(t) == [tuple |-> TRUE, v |-> << t >>]
TupleList(ts) == [tuple |-> FALSE, v |-> ts]

Case(net, input_size) == [net |-> net, input_size |-> input_size]

\* The models summarised: the root is module 1.
Cases ==
  {Case(<<Sequential(<<2>>), Sequential(<<>>)>>, OneTuple(<<d>>)) : d \in Dims}
  \cup {Case(<<Sequential(<<2>>), ModuleList(<<>>)>>, OneTuple(<<1>>))}
  \cup {Case(<<Net(<<2, 3>>, <<2, 3>>), Linear(i, o, TRUE, TRUE), ReLU>>,
             OneTuple(<<d>>)) : i \in Dims, o \in Dims, d \in Dims}
  \cup {Case(<<Sequential(<<2, 3>>), Sequential(<<4>>), Linear(40, 30, TRUE, TRUE),
               Linear(d, 40, FALSE, FALSE)>>, TupleList(<< <<3, d>> >>)) : d \in Dims}
  \cup {Case(<<Net(<<2, 3>>, <<2, 3>>), Block(<<4>>, <<4>>), Block(<<4>>, <<4>>),
               Linear(d, d, TRUE, TRUE)>>, OneTuple(<<d>>)) : d \in Dims}
  \cup {Case(<<Net(<<2>>, <<2, 2>>), Linear(d, d, TRUE, FALSE)>>,
             OneTuple(<<d>>)) : d \in Dims}
  \cup {Case(<<Net(<<2, 3>>, <<2, 3>>), Shift(d), Twice>>, OneTuple(<<d>>)) : d \in Dims}
  \cup {Case(<<Net(<<2, 3>>, <<2, 3>>), Linear(1, 1, TRUE, TRUE), Split>>,
             OneTuple(<<2, 1>>))}
  \cup {Case(<<Net(<<2, 3>>, <<2, 3>>), ReLU, Mean>>, OneTuple(<<1>>))}
  \cup {Case(<<BaseModel>>, OneTuple(<<1>>))}
  \cup {Case(<<Net(<<2>>, <<2>>), ReLU>>, OneTuple(<<1>>))}
  \cup {Case(<<Net(<<2, 5>>, <<3, 4>>), ModuleList(<<3, 4>>), Linear(1, 2, TRUE, TRUE),
               BatchNormPlain, ReLU>>, TupleList(<< <<1>>, <<1>> >>))}

\* The selectors and batch sizes the callers pass.
Devices == {<<"c", "p", "u">>, <<"C", "U", "D", "A">>, <<"g", "p", "u">>,
            <<"a", "c", "c", "e", "l", "e", "r", "a", "t", "o", "r">>}
BatchSizes == {DefaultBatch, 16}

\* ------------------------------------------------------------------- state
VARIABLES
  net,            \* the module tree of the model (module 1 is the model)
  given_size,     \* the input_size argument of every call
  cuda_available, \* torch.cuda.is_available()
  ragged_error,   \* what this numpy raises for np.prod of a ragged list
  attached,       \* per module, its forward hooks in registration order
  inv,            \* number of model_summary calls made so far
  pc,             \* where the current call stands
  batch_size,     \* per call, its batch_size argument
  device,         \* per call, its device argument (lower-cased by the call)
  dtype,          \* the tensor type resolved by the current call
  x,              \* the synthetic inputs of the current call (their shapes)
  summary,        \* per call, its OrderedDict of layer records
  hooks,          \* the current call's list of hook handles
  stack,          \* the frames of the forward pass under way
  passes,         \* per call, how many forward passes it started
  invoked,        \* per call, forward computations completed by sub-modules
                  \* other than containers and the model itself
  li,             \* the report loop's position in summary
  total_params, total_output, trainable_params,
  sizes,          \* the size estimates, in bytes
  printed,        \* per call, the lines printed
  outcome         \* per call: "running", "returned", or the exception raised

\* What no call changes: the model and the installation.
env == <<net, given_size, cuda_available, ragged_error>>

vars == <<net, given_size, cuda_available, ragged_error, attached, inv, pc, batch_size, device,
          dtype, x, summary, hooks, stack, passes, invoked, li, total_params,
          total_output, trainable_params, sizes, printed, outcome>>

Calls == 1..MaxInvocations
Modules == 1..Len(net)
Root == 1

\* A Python number that is either a plain int or a 0-dim LongTensor.
PyInt(n) == [v |-> n, tensor |-> FALSE]
LongTensor(n) == [v |-> n, tensor |-> TRUE]
\* a += b: the result is a tensor as soon as one operand is.
Add(a, b) == [v |-> a.v + b.v, tensor |-> a.tensor \/ b.tensor]

\* A value passed between modules: one tensor, or a tuple of tensors (shapes).
Tensor(shape) == [tuple |-> FALSE, shapes |-> <<shape>>]
Tuple(shapes) == [tuple |-> TRUE, shapes |-> shapes]

\* ---------------------------------------------------------------- the hook
\* str(module.__class__).split(".")[-1].split("'")[0]
ClassName(qual) == qual[Len(qual)]

\* A layer record: the keys set so far and their values.
EmptyRecord(key) ==
  [key |-> key, has |-> {}, input_shape |-> <<>>, multi |-> FALSE,
   output_shape |-> <<>>, trainable |-> FALSE, nb_params |-> PyInt(0)]

\* d[key] = value on an OrderedDict kept as a sequence of records: an existing
\* key keeps its place and takes the new value, a new key goes last.
DictSet(d, key, value) ==
  IF \E i \in 1..Len(d) : d[i].key = key
  THEN [i \in 1..Len(d) |-> IF d[i].key = key THEN value ELSE d[i]]
  ELSE Append(d, value)

\* module_idx = len(summary)
ModuleIdx(d) == Len(d)

\* The label numbered from 0: module_idx instead of module_idx + 1.
MKeyFromZero(m, d) == ClassName(m.qual) \o "-" \o ToString(ModuleIdx(d))

\* m_key = "%s-%i" % (class_name, module_idx + 1)
MKey(m, d) == ClassName(m.qual) \o "-" \o ToString(ModuleIdx(d) + 1)

\* The shapes recorded for a list or tuple output.
MultiShapes(shapes) ==
  [i \in 1..Len(shapes) |-> <<MultiLead>> \o
     (IF shapes[i] = <<>> THEN <<>> ELSE Tail(shapes[i]))]

\* The record's output_shape for a single tensor output of rank >= 1.
SingleShape(shape, bsz) == [shape EXCEPT ![1] = bsz]

\* The count with the bias left out.
WithParamsWeightOnly(rec, m) ==
  LET p1 == IF m.weight # <<>> THEN Add(PyInt(0), LongTensor(Prod(m.weight[1])))
            ELSE PyInt(0)
      r1 == IF m.weight # <<>>
            THEN [rec EXCEPT !.trainable = m.grad, !.has = @ \cup {"trainable"}]
            ELSE rec
  IN [r1 EXCEPT !.nb_params = p1, !.has = @ \cup {"nb_params"}]

\* The parameter count and trainable flag written by the hook.
WithParams(rec, m) ==
  LET p1 == IF m.weight # <<>> THEN Add(PyInt(0), LongTensor(Prod(m.weight[1])))
            ELSE PyInt(0)
      r1 == IF m.weight # <<>>
            THEN [rec EXCEPT !.trainable = m.grad, !.has = @ \cup {"trainable"}]
            ELSE rec
      p2 == IF m.bias # <<>> THEN Add(p1, LongTensor(Prod(m.bias[1]))) ELSE p1
  IN [r1 EXCEPT !.nb_params = p2, !.has = @ \cup {"nb_params"}]

\* hook(module_to_hook, inputs, output) writing into the dict d it closes over,
\* with the batch_size it closes over: the dict afterwards and the exception
\* raised ("" when none).
Hook(m, inputs0, output, d, bsz) ==
  LET key == MKey(m, d)
      r0 == EmptyRecord(key)
  IN IF inputs0.tuple
     THEN [d |-> DictSet(d, key, r0), exc |-> "AttributeError"]
     ELSE
     LET in == inputs0.shapes[1]
         r1 == [r0 EXCEPT !.input_shape = in, !.has = @ \cup {"input_shape"}]
     IN IF in = <<>>
        THEN [d |-> DictSet(d, key, r1), exc |-> "IndexError"]
        ELSE
        LET r2 == [r1 EXCEPT !.input_shape = [in EXCEPT ![1] = bsz]]
        IN IF output.tuple
           THEN [d |-> DictSet(d, key,
                         WithParams([r2 EXCEPT !.multi = TRUE,
                                        !.output_shape = MultiShapes(output.shapes),
                                        !.has = @ \cup {"output_shape"}], m)),
                 exc |-> ""]
           ELSE
           LET out == output.shapes[1]
               r3 == [r2 EXCEPT !.output_shape = <<out>>,
                                !.has = @ \cup {"output_shape"}]
           IN IF out = <<>>
              THEN [d |-> DictSet(d, key, r3), exc |-> "IndexError"]
              ELSE [d |-> DictSet(d, key,
                            WithParams([r3 EXCEPT !.output_shape =
                                           <<SingleShape(out, bsz)>>], m)),
                    exc |-> ""]

\* Whether register_hook attaches a hook to module id.
Hookable(id) ==
  /\ net[id].qual # SequentialQual
  /\ net[id].qual # ModuleListQual
  /\ id # Root

RECURSIVE Dedup(_, _)
\* Module.children(): each child once, in registration order.
Dedup(s, seen) ==
  IF s = <<>> THEN <<>>
  ELSE IF Head(s) \in seen THEN Dedup(Tail(s), seen)
  ELSE <<Head(s)>> \o Dedup(Tail(s), seen \cup {Head(s)})

RECURSIVE ApplyOrder(_)
RECURSIVE ApplyEach(_)
\* Module.apply(fn): fn on every child's subtree, then on the module itself.
ApplyOrder(id) == ApplyEach(Dedup(net[id].children, {})) \o <<id>>
ApplyEach(ids) ==
  IF ids = <<>> THEN <<>> ELSE ApplyOrder(Head(ids)) \o ApplyEach(Tail(ids))

RECURSIVE RegisterAll(_, _, _)
\* register_hook on each module of order: the hooks list and the hooks
\* attached to the modules afterwards.
RegisterAll(order, hs, att) ==
  IF order = <<>> THEN [hooks |-> hs, attached |-> att]
  ELSE LET id == Head(order)
           h == [mod |-> id, call |-> inv, n |-> Len(hs) + 1]
       IN IF Hookable(id)
          THEN RegisterAll(Tail(order), Append(hs, h),
                           [att EXCEPT ![id] = Append(@, h)])
          ELSE RegisterAll(Tail(order), hs, att)

RECURSIVE FilterOut(_, _)
FilterOut(s, h) ==
  IF s = <<>> THEN <<>>
  ELSE IF Head(s) = h THEN FilterOut(Tail(s), h)
  ELSE <<Head(s)>> \o FilterOut(Tail(s), h)

RECURSIVE RemoveAll(_, _)
\* for h in hooks: h.remove()
RemoveAll(hs, att) ==
  IF hs = <<>> THEN att
  ELSE RemoveAll(Tail(hs), [att EXCEPT ![Head(hs).mod] = FilterOut(@, Head(hs))])

RECURSIVE FireHooks(_, _, _, _, _)
\* Module.__call__ after forward: the attached hooks in registration order,
\* each writing into the dict of the call that registered it; stops at the
\* first hook that raises.
FireHooks(hs, m, inputs0, output, sums) ==
  IF hs = <<>> THEN [sums |-> sums, exc |-> ""]
  ELSE LET c == Head(hs).call
           r == Hook(m, inputs0, output, sums[c], batch_size[c])
           after == [sums EXCEPT ![c] = r.d]
       IN IF r.exc # "" THEN [sums |-> after, exc |-> r.exc]
          ELSE FireHooks(Tail(hs), m, inputs0, output, after)

\* ------------------------------------------------------- the forward pass
\* What a module's own computation returns for input value in, having got cur
\* from the sub-modules it invoked: the value and the exception ("" when none).
Forward(m, in, cur) ==
  CASE m.fwd = "unimpl" -> [val |-> in, exc |-> "NotImplementedError"]
    [] m.fwd \in {"compose", "chain"} -> [val |-> cur, exc |-> ""]
    [] in.tuple -> [val |-> in, exc |-> "TypeError"]
    [] m.fwd = "linear" ->
         LET s == in.shapes[1]
         IN IF s = <<>> \/ s[Len(s)] # m.weight[1][2]
            THEN [val |-> in, exc |-> "RuntimeError"]
            ELSE [val |-> Tensor([s EXCEPT ![Len(s)] = m.weight[1][1]]), exc |-> ""]
    [] m.fwd = "same" -> [val |-> in, exc |-> ""]
    [] m.fwd = "pair" -> [val |-> Tuple(<<in.shapes[1], in.shapes[1]>>), exc |-> ""]
    [] m.fwd = "split" ->
         LET s == in.shapes[1]
         IN [val |-> Tuple(<<s, SubSeq(s, 1, Len(s) - 1)>>), exc |-> ""]
    [] m.fwd = "scalar" -> [val |-> Tensor(<<>>), exc |-> ""]

\* The argument a module passes to the next sub-module it invokes: a chain
\* passes the previous output as it is, a user forward unpacks a tuple.
Argument(m, cur) ==
  IF m.fwd = "compose" /\ cur.tuple THEN Tensor(cur.shapes[1]) ELSE cur

Frame(id, in) == [mod |-> id, pos |-> 1, input |-> in, cur |-> in]

\* ------------------------------------------------------------ model_summary
Init ==
  /\ \E c \in Cases :
       /\ net = c.net
       /\ given_size = c.input_size
       /\ attached = [id \in 1..Len(c.net) |-> <<>>]
  /\ cuda_available \in BOOLEAN
  /\ ragged_error \in {"ValueError", "TypeError"}
  /\ inv = 0
  /\ pc = "idle"
  /\ batch_size = [c \in Calls |-> DefaultBatch]
  /\ device = [c \in Calls |-> Cpu]
  /\ dtype = ""
  /\ x = <<>>
  /\ summary = [c \in Calls |-> <<>>]
  /\ hooks = <<>>
  /\ stack = <<>>
  /\ passes = [c \in Calls |-> 0]
  /\ invoked = [c \in Calls |-> 0]
  /\ li = 0
  /\ total_params = PyInt(0)
  /\ total_output = 0
  /\ trainable_params = PyInt(0)
  /\ sizes = [input |-> 0, output |-> 0, params |-> 0]
  /\ printed = [c \in Calls |-> <<>>]
  /\ outcome = [c \in Calls |-> "none"]

\* An exception leaves model_summary: the caller gets it.
Raises(exc) ==
  /\ outcome' = [outcome EXCEPT ![inv] = exc]
  /\ pc' = "idle"

\* Model.summary / model_summary is called with a batch size and a device.
Call(bsz, dev) ==
  /\ pc = "idle"
  /\ inv < MaxInvocations
  /\ inv' = inv + 1
  /\ batch_size' = [batch_size EXCEPT ![inv + 1] = bsz]
  /\ device' = [device EXCEPT ![inv + 1] = dev]
  /\ outcome' = [outcome EXCEPT ![inv + 1] = "running"]
  /\ pc' = "validate"
  /\ dtype' = ""
  /\ x' = <<>>
  /\ hooks' = <<>>
  /\ stack' = <<>>
  /\ li' = 0
  /\ total_params' = PyInt(0)
  /\ total_output' = 0
  /\ trainable_params' = PyInt(0)
  /\ sizes' = [input |-> 0, output |-> 0, params |-> 0]
  /\ UNCHANGED <<env, attached, summary, passes,
                 invoked, printed>>

\* The selector compared as given, without lower-casing.
DeviceAsGiven(dev) == dev

\* device = device.lower()
DeviceLower(dev) == Lower(dev)

\* The selectors the assert lets through.
AcceptedDevices == {Cuda, Cpu}

\* device = device.lower(); assert device in ["cuda", "cpu"]
Validate ==
  /\ pc = "validate"
  /\ device' = [device EXCEPT ![inv] = DeviceLower(@)]
  /\ IF device'[inv] \in AcceptedDevices
     THEN pc' = "prepare" /\ UNCHANGED outcome
     ELSE Raises("AssertionError")
  /\ UNCHANGED <<env, attached, inv, batch_size,
                 dtype, x, summary, hooks, stack, passes, invoked, li,
                 total_params, total_output, trainable_params, sizes, printed>>

CudaFloat == "torch.cuda.FloatTensor"
CpuFloat == "torch.FloatTensor"

\* The accelerator type for "cuda" whether or not an accelerator is there.
ResolveDTypeUnchecked(dev, avail) == IF dev = Cuda THEN CudaFloat ELSE CpuFloat

\* The tensor type chosen for a validated device.
ResolveDType(dev, avail) == IF dev = Cuda /\ avail THEN CudaFloat ELSE CpuFloat

\* if isinstance(input_size, tuple): input_size = [input_size]
InputSizes(size) == size.v

\* The dtype, the list of input sizes, the synthetic inputs (a tensor of the
\* accelerator type cannot be made without an accelerator), and the fresh
\* summary and hooks.
Prepare ==
  /\ pc = "prepare"
  /\ dtype' = ResolveDType(device[inv], cuda_available)
  /\ IF dtype' = CudaFloat /\ ~cuda_available
     THEN /\ Raises("RuntimeError")
          /\ UNCHANGED <<x, summary, hooks>>
     ELSE /\ x' = [i \in 1..Len(InputSizes(given_size)) |->
                     <<SyntheticBatch>> \o InputSizes(given_size)[i]]
          /\ summary' = [summary EXCEPT ![inv] = <<>>]
          /\ hooks' = <<>>
          /\ pc' = "register"
          /\ UNCHANGED outcome
  /\ UNCHANGED <<env, attached, inv, batch_size,
                 device, stack, passes, invoked, li, total_params, total_output,
                 trainable_params, sizes, printed>>

\* model.apply(register_hook)
Register ==
  /\ pc = "register"
  /\ LET r == RegisterAll(ApplyOrder(Root), hooks, attached)
     IN hooks' = r.hooks /\ attached' = r.attached
  /\ pc' = "call"
  /\ UNCHANGED <<env, inv, batch_size, device, dtype,
                 x, summary, stack, passes, invoked, li, total_params,
                 total_output, trainable_params, sizes, printed, outcome>>

\* model(*x): the model's forward starts on the first synthetic input.
StartForward ==
  /\ pc = "call"
  /\ stack' = <<Frame(Root, Tensor(x[1]))>>
  /\ passes' = [passes EXCEPT ![inv] = @ + 1]
  /\ pc' = "forward"
  /\ UNCHANGED <<env, attached, inv, batch_size,
                 device, dtype, x, summary, hooks, invoked, li, total_params,
                 total_output, trainable_params, sizes, printed, outcome>>

Top == stack[Len(stack)]

\* The running module invokes the next of its sub-modules.
InvokeChild ==
  /\ pc = "forward"
  /\ net[Top.mod].fwd # "unimpl"
  /\ Top.pos <= Len(net[Top.mod].calls)
  /\ LET m == net[Top.mod]
         callee == m.calls[Top.pos]
     IN stack' = Append([stack EXCEPT ![Len(stack)].pos = @ + 1],
                        Frame(callee, Argument(m, Top.cur)))
  /\ UNCHANGED <<env, attached, inv, pc, batch_size,
                 device, dtype, x, summary, hooks, passes, invoked, li,
                 total_params, total_output, trainable_params, sizes, printed,
                 outcome>>

\* The running module's forward returns (or raises), its forward hooks fire,
\* and its caller goes on with the output; an exception unwinds the pass.
CompleteModule ==
  /\ pc = "forward"
  /\ net[Top.mod].fwd = "unimpl" \/ Top.pos > Len(net[Top.mod].calls)
  /\ LET m == net[Top.mod]
         f == Forward(m, Top.input, Top.cur)
         fired == FireHooks(attached[Top.mod], m, Top.input, f.val, summary)
     IN IF f.exc # ""
        THEN /\ Raises(f.exc)
             /\ stack' = <<>>
             /\ UNCHANGED <<summary, invoked>>
        ELSE /\ summary' = fired.sums
             /\ invoked' = [invoked EXCEPT ![inv] =
                              IF Hookable(Top.mod) THEN @ + 1 ELSE @]
             /\ IF fired.exc # ""
                THEN Raises(fired.exc) /\ stack' = <<>>
                ELSE IF Len(stack) = 1
                THEN pc' = "remove" /\ stack' = <<>> /\ UNCHANGED outcome
                ELSE /\ stack' = [SubSeq(stack, 1, Len(stack) - 1)
                                    EXCEPT ![Len(stack) - 1].cur = f.val]
                     /\ UNCHANGED <<pc, outcome>>
  /\ UNCHANGED <<env, attached, inv, batch_size,
                 device, dtype, x, hooks, passes, li, total_params, total_output,
                 trainable_params, sizes, printed>>

\* for h in hooks: h.remove()
RemoveHooks ==
  /\ pc = "remove"
  /\ attached' = RemoveAll(hooks, attached)
  /\ pc' = "header"
  /\ UNCHANGED <<env, inv, batch_size, device, dtype,
                 x, summary, hooks, stack, passes, invoked, li, total_params,
                 total_output, trainable_params, sizes, printed, outcome>>

Rule(c) == [t |-> "rule", text |-> c]

\* The three header lines; the totals start at the int 0.
PrintHeader ==
  /\ pc = "header"
  /\ printed' = [printed EXCEPT ![inv] =
                   @ \o <<Rule("-"), [t |-> "head", text |-> "Layer (type)"],
                          Rule("=")>>]
  /\ total_params' = PyInt(0)
  /\ total_output' = 0
  /\ trainable_params' = PyInt(0)
  /\ li' = 1
  /\ pc' = "rows"
  /\ UNCHANGED <<env, attached, inv, batch_size,
                 device, dtype, x, summary, hooks, stack, passes, invoked, sizes,
                 outcome>>

\* np.prod(summary[layer]["output_shape"])
OutputProd(rec) ==
  IF rec.multi THEN Prod(Flatten(rec.output_shape)) ELSE Prod(rec.output_shape[1])

\* The row printed for a record.
Row(rec) ==
  [t |-> "row", layer |-> rec.key, multi |-> rec.multi,
   output_shape |-> rec.output_shape, params |-> Commas(rec.nb_params.v)]

\* One turn of "for layer in summary": the totals, then the row.
PrintRow ==
  /\ pc = "rows"
  /\ li <= Len(summary[inv])
  /\ LET rec == summary[inv][li]
     IN /\ total_params' = Add(total_params, rec.nb_params)
        /\ IF rec.multi /\ Ragged(rec.output_shape)
           THEN /\ Raises(ragged_error)
                /\ UNCHANGED <<total_output, trainable_params, printed, li>>
           ELSE /\ total_output' = total_output + OutputProd(rec)
                /\ trainable_params' =
                     IF "trainable" \in rec.has /\ rec.trainable
                     THEN Add(trainable_params, rec.nb_params)
                     ELSE trainable_params
                /\ printed' = [printed EXCEPT ![inv] = Append(@, Row(rec))]
                /\ li' = li + 1
                /\ UNCHANGED <<pc, outcome>>
  /\ UNCHANGED <<env, attached, inv, batch_size,
                 device, dtype, x, summary, hooks, stack, passes, invoked, sizes>>

\* The size estimates after the loop; total_params.numpy() needs a tensor.
Estimate ==
  /\ pc = "rows"
  /\ li > Len(summary[inv])
  /\ IF Ragged(InputSizes(given_size))
     THEN Raises(ragged_error) /\ UNCHANGED sizes
     ELSE IF ~total_params.tensor
     THEN Raises("AttributeError") /\ UNCHANGED sizes
     ELSE /\ sizes' =
               [input |-> Abs(Prod(Flatten(InputSizes(given_size)))
                              * batch_size[inv] * BytesPerNumber),
                output |-> Abs(2 * total_output * BytesPerNumber),
                params |-> Abs(total_params.v * BytesPerNumber)]
          /\ pc' = "totals"
          /\ UNCHANGED outcome
  /\ UNCHANGED <<env, attached, inv, batch_size,
                 device, dtype, x, summary, hooks, stack, passes, invoked, li,
                 total_params, total_output, trainable_params, printed>>

Count(t, n) == [t |-> t, text |-> Commas(n)]
Size(t, bytes) == [t |-> t, bytes |-> bytes]

\* The closing lines; model_summary returns None.
PrintTotals ==
  /\ pc = "totals"
  /\ printed' = [printed EXCEPT ![inv] =
       @ \o <<Rule("="),
              Count("Total params", total_params.v),
              Count("Trainable params", trainable_params.v),
              Count("Non-trainable params", total_params.v - trainable_params.v),
              Rule("-"),
              Size("Input size (MB)", sizes.input),
              Size("Forward/backward pass size (MB)", sizes.output),
              Size("Params size (MB)", sizes.params),
              Size("Estimated Total Size (MB)",
                   sizes.params + sizes.output + sizes.input),
              Rule("-")>>]
  /\ outcome' = [outcome EXCEPT ![inv] = "returned"]
  /\ pc' = "idle"
  /\ UNCHANGED <<env, attached, inv, batch_size,
                 device, dtype, x, summary, hooks, stack, passes, invoked, li,
                 total_params, total_output, trainable_params, sizes>>

Next ==
  \/ \E bsz \in BatchSizes, dev \in Devices : Call(bsz, dev)
  \/ Validate
  \/ Prepare
  \/ Register
  \/ StartForward
  \/ InvokeChild
  \/ CompleteModule
  \/ RemoveHooks
  \/ PrintHeader
  \/ PrintRow
  \/ Estimate
  \/ PrintTotals

Spec == Init /\ [][Next]_vars

\* ------------------------------------------------------------- properties
\* Call c is over: control is back with the caller.
Ended(c) == c < inv \/ (c = inv /\ pc = "idle")

\* Call c is past the device check.
Validated(c) == c < inv \/ (c = inv /\ pc # "validate")

\* The hooks registered by call c that are attached to the model.
HooksOf(c) ==
  {h \in UNION {{attached[id][k] : k \in 1..Len(attached[id])} : id \in Modules} :
     h.call = c}

\* Call c's forward pass raised: it started a pass, printed nothing, and
\* ended with an exception.
ForwardRaised(c) ==
  /\ Ended(c)
  /\ passes[c] = 1
  /\ printed[c] = <<>>
  /\ outcome[c] \notin {"running", "returned"}

\* The layer rows among the lines call c printed.
IsRow(line) == line.t = "row"
Rows(c) == SelectSeq(printed[c], IsRow)

\* The records of d that the hook wrote to the end.
Complete(rec) == "nb_params" \in rec.has

\* C1: once a call of model_summary is over, whether it returned or raised,
\* the model has no forward hook attached.
C1_NoHookAfterCall ==
  (pc = "idle" /\ inv >= 1) => \A id \in Modules : attached[id] = <<>>

\* The selectors the specification enumerates.
SpecDevices == {<<"c", "p", "u">>,
                <<"a", "c", "c", "e", "l", "e", "r", "a", "t", "o", "r">>}
\* The selectors the amended claim enumerates.
CodeDevices == {<<"c", "p", "u">>, <<"c", "u", "d", "a">>}

\* A call with a selector outside the set accepted ends with the assertion
\* error having attached no hook, run no pass and printed nothing; one with a
\* selector in accepted (after lower-casing) gets past the check; and nothing
\* is attached, run or printed before the check.
DeviceCheck(accepted) ==
  /\ \A c \in 1..inv :
       Validated(c) =>
         IF Lower(device[c]) \in accepted
         THEN outcome[c] # "AssertionError"
         ELSE /\ outcome[c] = "AssertionError"
              /\ HooksOf(c) = {}
              /\ passes[c] = 0
              /\ summary[c] = <<>>
              /\ printed[c] = <<>>
  /\ pc = "validate" =>
       HooksOf(inv) = {} /\ passes[inv] = 0 /\ printed[inv] = <<>>

\* C2 as stated: the accepted set is {"cpu", "accelerator"}.
C2_SpecDevicesAccepted == DeviceCheck(SpecDevices)

\* C2 as amended: a selector that is not "cuda" or "cpu" after lower-casing
\* fails the call with the assertion error before any hook is attached, any
\* forward pass runs or anything is printed; "cuda" and "cpu" in any case pass.
C2_InvalidDeviceRejected == DeviceCheck(CodeDevices)

C2_Witness ==
  /\ inv >= 1
  /\ Ended(1)
  /\ device[1] = <<"g", "p", "u">>
  /\ outcome[1] = "AssertionError"

ContainerOnly ==
  \A id \in Modules : net[id].qual \in {SequentialQual, ModuleListQual}

\* C3: for a model of containers only whose forward pass went through, the
\* call returns normally having printed no layer row and totals of zero.
C3_ContainerOnlyZeroTotals ==
  \A c \in 1..inv :
    (ContainerOnly /\ Ended(c) /\ printed[c] # <<>>) =>
      /\ outcome[c] = "returned"
      /\ Rows(c) = <<>>
      /\ \A t \in {"Total params", "Trainable params", "Non-trainable params"} :
           \E k \in 1..Len(printed[c]) : printed[c][k] = [t |-> t, text |-> "0"]

\* C4: every finished layer record of a call has its batch_size as the
\* leading dimension of the input shape and of every output shape.
C4_LeadingDimIsBatch ==
  \A c \in 1..inv : \A k \in 1..Len(summary[c]) :
    LET rec == summary[c][k]
    IN Complete(rec) =>
         /\ rec.input_shape[1] = batch_size[c]
         /\ \A j \in 1..Len(rec.output_shape) :
              rec.output_shape[j][1] = batch_size[c]

\* C5: after the forward pass, the call has as many layer records as forward
\* computations were completed by sub-modules other than containers and the
\* model itself.
C5_RecordsEqualInvoked ==
  pc \in {"remove", "header", "rows", "totals"} =>
    Len(summary[inv]) = invoked[inv]

SameArguments(c, d) ==
  /\ Lower(device[c]) = Lower(device[d])
  /\ batch_size[c] = batch_size[d]

\* Two finished calls with the same arguments printed the same report and
\* ended the same way.
ReportsAgree ==
  \A c, d \in 1..inv :
    (Ended(c) /\ Ended(d) /\ SameArguments(c, d)) =>
      /\ printed[c] = printed[d]
      /\ outcome[c] = outcome[d]

\* C6: a second call with the same arguments prints the same report and ends
\* the same way, and no hook of the earlier call fires while the later call
\* runs: the records of a call that is over are never written again.
C6_SecondRunIdentical ==
  [][/\ ReportsAgree'
     /\ \A c \in 1..inv :
          (Ended(c) /\ SameArguments(c, inv)) => summary'[c] = summary[c]]_vars

\* C7: a validated call runs one forward pass, with every hook attached and
\* nothing printed while it runs; a pass that raises is not run again, and
\* the exception reaches the caller with the hooks removed and no report.
C7_OnePassThenCleanup ==
  /\ \A c \in 1..inv :
       /\ passes[c] <= 1
       /\ outcome[c] = "returned" => passes[c] = 1
       /\ ForwardRaised(c) => HooksOf(c) = {}
  /\ pc = "forward" =>
       /\ HooksOf(inv) = {hooks[k] : k \in 1..Len(hooks)}
       /\ printed[inv] = <<>>

RECURSIVE SumParams(_, _)
\* The sum of the counts of the records of d (of the trainable ones only).
SumParams(d, trainableOnly) ==
  IF d = <<>> THEN 0
  ELSE (IF trainableOnly /\ ~("trainable" \in Head(d).has /\ Head(d).trainable)
        THEN 0 ELSE Head(d).nb_params.v)
       + SumParams(Tail(d), trainableOnly)

\* The element count of a parameter attribute, 0 when the module has none.
Numel(attr) == IF attr = <<>> THEN 0 ELSE Prod(attr[1])

\* The record a hook of module m has just put last in d.
CountIsRight(d, m) ==
  LET rec == d[Len(d)]
  IN Complete(rec) =>
       /\ rec.nb_params.v = Numel(m.weight) + Numel(m.bias)
       /\ (m.fwd = "linear" /\ m.bias # <<>>) =>
            rec.nb_params.v = m.weight[1][2] * m.weight[1][1] + m.weight[1][1]
       /\ m.weight = <<>> => "trainable" \notin rec.has
       /\ m.weight # <<>> => ("trainable" \in rec.has /\ rec.trainable = m.grad)

\* The totals a finished report prints.
TotalsAreSums(c) ==
  LET total == SumParams(summary[c], FALSE)
      trainable == SumParams(summary[c], TRUE)
  IN /\ 0 <= trainable /\ trainable <= total
     /\ \E k \in 1..Len(printed[c]) :
          printed[c][k] = [t |-> "Total params", text |-> Commas(total)]
     /\ \E k \in 1..Len(printed[c]) :
          printed[c][k] = [t |-> "Trainable params", text |-> Commas(trainable)]
     /\ \E k \in 1..Len(printed[c]) :
          printed[c][k] = [t |-> "Non-trainable params",
                           text |-> Commas(total - trainable)]
     /\ \A k \in 1..Len(Rows(c)) :
          /\ Rows(c)[k].params = Commas(summary[c][k].nb_params.v)
          /\ summary[c][k].nb_params.v = 1230 => Rows(c)[k].params = "1,230"

\* C8: each record's count is the weight's element count plus the bias's
\* (i*o + o for a linear layer with bias); a module without weight gets no
\* trainable flag; the printed total is the sum over the records, the
\* trainable total the sum over the flagged ones, 0 <= trainable <= total.
C8_ParamCounts ==
  /\ [](\A c \in 1..inv : outcome[c] = "returned" => TotalsAreSums(c))
  /\ [][\A c \in Calls :
          Len(summary'[c]) > Len(summary[c]) =>
            CountIsRight(summary'[c], net[Top.mod])]_vars

C8_Witness ==
  /\ inv >= 1
  /\ outcome[1] = "returned"
  /\ \E k \in 1..Len(summary[1]) :
       /\ "trainable" \notin summary[1][k].has
       /\ summary[1][k].nb_params.v > 0
  /\ SumParams(summary[1], FALSE) > SumParams(summary[1], TRUE)

\* C9: with "cuda" asked for and no accelerator, the call resolves the cpu
\* tensor type, does not fail for the device, and ends as a call asking for
\* "cpu" with the same batch size does: same outcome, same report, and same
\* records when both return.
C9_FallbackToCpu ==
  /\ (inv >= 1 /\ ~cuda_available /\ pc \notin {"idle", "validate", "prepare"}) =>
       dtype = CpuFloat
  /\ \A c \in 1..inv :
       (~cuda_available /\ Ended(c) /\ Lower(device[c]) = Cuda) =>
         /\ passes[c] = 1
         /\ \A d \in 1..inv :
              (Ended(d) /\ Lower(device[d]) = Cpu /\ batch_size[d] = batch_size[c]) =>
                /\ outcome[c] = outcome[d]
                /\ printed[c] = printed[d]
                /\ outcome[c] = "returned" => summary[c] = summary[d]

C9_Witness ==
  /\ ~cuda_available
  /\ inv = 2 /\ pc = "idle"
  /\ device[1] = Cuda /\ device[2] = Cpu
  /\ batch_size[1] = batch_size[2]
  /\ outcome[1] = "returned" /\ outcome[2] = "returned"
  /\ Len(summary[1]) >= 2

\* The labels of d are pairwise distinct, and the k-th is a class name of the
\* model followed by "-" and k.
LabelsInOrder(d) ==
  /\ \A j, k \in 1..Len(d) : d[j].key = d[k].key => j = k
  /\ \A k \in 1..Len(d) :
       \E id \in Modules : d[k].key = ClassName(net[id].qual) \o "-" \o ToString(k)

\* A step that fires hooks of module id puts one record per hook at the end
\* of the dict, labelled with the module's class and the next ordinals, and
\* leaves the records before them as they were.
Appended(before, after, id) ==
  /\ Len(after) >= Len(before)
  /\ SubSeq(after, 1, Len(before)) = before
  /\ \A k \in (Len(before) + 1)..Len(after) :
       after[k].key = ClassName(net[id].qual) \o "-" \o ToString(k)

\* C10: labels are pairwise distinct, <class name>-<ordinal>, with the
\* ordinal of the k-th hook firing equal to k in the order the sub-module
\* computations complete; no record is overwritten; the rows of the report
\* come in that order.
C10_LabelsOrdinal ==
  /\ [](\A c \in 1..inv :
          /\ LabelsInOrder(summary[c])
          /\ outcome[c] = "returned" =>
               /\ Len(Rows(c)) = Len(summary[c])
               /\ \A k \in 1..Len(Rows(c)) : Rows(c)[k].layer = summary[c][k].key)
  /\ [][\A c \in Calls :
          /\ pc = "forward" => Appended(summary[c], summary'[c], Top.mod)
          /\ pc # "forward" => summary'[c] = summary[c]
          /\ (pc = "forward" /\ pc' # "idle" /\ c = inv
              /\ Len(stack') < Len(stack)) =>
               Len(summary'[c]) = Len(summary[c]) + Cardinality(
                 {h \in HooksOf(c) : h.mod = Top.mod})]_vars

C10_Witness ==
  /\ inv >= 1
  /\ outcome[1] = "returned"
  /\ Len(summary[1]) = 6
  /\ summary[1][1].key = "Linear-1"
  /\ summary[1][3].key = "Block-3"
  /\ summary[1][6].key = "Block-6"
  /\ Rows(1)[6].layer = "Block-6"

====
